---- MODULE Spec2Model ----
(***************************************************************************)
(* Model of rmqrcode's segment optimizer (src/rmqrcode/segments.py) and of *)
(* the mode encoders it uses as cost oracle.                               *)
(*                                                                         *)
(* A character is a short string; a text is a sequence of characters.      *)
(* "ten" stands for U+70B9 and "mei" for U+8317, the two kanji of          *)
(* tests/encoder/kanji_encoder_test.py.  A bit string is a sequence of 0/1.*)
(***************************************************************************)
EXTENDS Integers, Sequences, FiniteSets, TLC

\* ---------------------------------------------------------------- bounds
\* longest text handed to compute() on a reused optimizer (Spec)
MaxLen == 2
\* compute() calls made on one optimizer instance before it is dropped
MaxCalls == 2
\* longest text handed to compute() on a fresh optimizer (SpecFresh)
FreshMaxLen == 3
\* longest text handed to an encoder (SpecEncode)
EncMaxLen == 3
\* largest count-indicator width handed to an encoder (SpecEncode)
EncMaxWidth == 5

\* ------------------------------------------------------- program constants
MAX_CHARACTER == 360
INF == 100000

NumericEncoder == 0
AlphanumericEncoder == 1
ByteEncoder == 2
KanjiEncoder == 3
\* segments.py `encoders`: the list index is the DP mode
encoders == <<NumericEncoder, AlphanumericEncoder, ByteEncoder, KanjiEncoder>>
Modes == 0..3
Phases == 0..2

\* ------------------------------------------------------------- characters
Alphabet == {"1", "A", "a", "ten"}
Characters == Alphabet \cup {"mei"}

\* str.encode("utf-8") of one character
utf8_char(c) ==
  CASE c = "1" -> <<49>>
    [] c = "A" -> <<65>>
    [] c = "a" -> <<97>>
    [] c = "ten" -> <<231, 130, 185>>
    [] c = "mei" -> <<232, 140, 151>>

RECURSIVE utf8(_)
\* str.encode("utf-8") of a text
utf8(s) == IF s = <<>> THEN <<>> ELSE utf8_char(Head(s)) \o utf8(Tail(s))

\* the Shift-JIS double-byte code of a character, 0 when it has none
shift_jis(c) ==
  CASE c = "ten" -> 37727
    [] c = "mei" -> 58538
    [] OTHER -> 0

\* value of a character in the 45-symbol alphanumeric table, -1 when absent
alphanumeric_value(c) ==
  CASE c = "1" -> 1
    [] c = "A" -> 10
    [] OTHER -> -1

\* ------------------------------------------------------------ bit strings
RECURSIVE bin(_)
\* bin(n)[2:]
bin(n) == IF n < 2 THEN <<n>> ELSE bin(n \div 2) \o <<n % 2>>

\* str.zfill(width): pads on the left, never truncates
zfill(s, width) ==
  IF Len(s) >= width THEN s ELSE [i \in 1..(width - Len(s)) |-> 0] \o s

\* ------------------------------------------------------------ ByteEncoder
ByteEncoder_mode_indicator == <<0, 1, 1>>

RECURSIVE ByteEncoder_bits_of(_)
ByteEncoder_bits_of(bytes) ==
  IF bytes = <<>> THEN <<>>
  ELSE zfill(bin(Head(bytes)), 8) \o ByteEncoder_bits_of(Tail(bytes))

ByteEncoder_encoded_bits(s) == ByteEncoder_bits_of(utf8(s))

ByteEncoder_encode(data, character_count_indicator_length) ==
  ByteEncoder_mode_indicator
    \o zfill(bin(Len(data)), character_count_indicator_length)
    \o ByteEncoder_encoded_bits(data)

ByteEncoder_length(data, character_count_indicator_length) ==
  Len(ByteEncoder_mode_indicator) + character_count_indicator_length
    + 8 * Len(utf8(data))

\* ------------------------------- Numeric, Alphanumeric and Kanji encoders
NumericEncoder_mode_indicator == <<0, 0, 1>>
AlphanumericEncoder_mode_indicator == <<0, 1, 0>>
KanjiEncoder_mode_indicator == <<1, 0, 0>>

NumericEncoder_is_valid_character(c) == c = "1"
AlphanumericEncoder_is_valid_character(c) == alphanumeric_value(c) >= 0
ByteEncoder_is_valid_character(c) == TRUE
KanjiEncoder_is_valid_character(c) ==
  \/ (33088 <= shift_jis(c) /\ shift_jis(c) <= 40956)
  \/ (57408 <= shift_jis(c) /\ shift_jis(c) <= 60351)

is_valid_character(mode, c) ==
  CASE mode = NumericEncoder -> NumericEncoder_is_valid_character(c)
    [] mode = AlphanumericEncoder -> AlphanumericEncoder_is_valid_character(c)
    [] mode = ByteEncoder -> ByteEncoder_is_valid_character(c)
    [] mode = KanjiEncoder -> KanjiEncoder_is_valid_character(c)

\* encoders[mode].is_valid_characters(data)
is_valid_characters(mode, s) == \A i \in 1..Len(s) : is_valid_character(mode, s[i])

NumericEncoder_length(data, character_count_indicator_length) ==
  LET r == CASE Len(data) % 3 = 0 -> 0
             [] Len(data) % 3 = 1 -> 4
             [] Len(data) % 3 = 2 -> 7
  IN  Len(NumericEncoder_mode_indicator) + character_count_indicator_length
        + 10 * (Len(data) \div 3) + r

AlphanumericEncoder_length(data, character_count_indicator_length) ==
  Len(AlphanumericEncoder_mode_indicator) + character_count_indicator_length
    + 11 * (Len(data) \div 2) + 6 * (Len(data) % 2)

KanjiEncoder_length(data, character_count_indicator_length) ==
  Len(KanjiEncoder_mode_indicator) + character_count_indicator_length
    + 13 * Len(data)

\* encoders[mode].length(data, character_count_indicator_length)
encoder_length(mode, data, character_count_indicator_length) ==
  CASE mode = NumericEncoder ->
         NumericEncoder_length(data, character_count_indicator_length)
    [] mode = AlphanumericEncoder ->
         AlphanumericEncoder_length(data, character_count_indicator_length)
    [] mode = ByteEncoder ->
         ByteEncoder_length(data, character_count_indicator_length)
    [] mode = KanjiEncoder ->
         KanjiEncoder_length(data, character_count_indicator_length)

RECURSIVE NumericEncoder_encoded_bits(_)
\* groups of three digits -> 10 bits, a rest of two -> 7, of one -> 4
NumericEncoder_encoded_bits(s) ==
  LET d(i) == alphanumeric_value(s[i])
  IN  IF Len(s) = 0 THEN <<>>
      ELSE IF Len(s) = 1 THEN zfill(bin(d(1)), 4)
      ELSE IF Len(s) = 2 THEN zfill(bin(10 * d(1) + d(2)), 7)
      ELSE zfill(bin(100 * d(1) + 10 * d(2) + d(3)), 10)
             \o NumericEncoder_encoded_bits(SubSeq(s, 4, Len(s)))

RECURSIVE AlphanumericEncoder_encoded_bits(_)
\* pairs -> 11 bits of a*45+b, a single rest -> 6 bits
AlphanumericEncoder_encoded_bits(s) ==
  LET v(i) == alphanumeric_value(s[i])
  IN  IF Len(s) = 0 THEN <<>>
      ELSE IF Len(s) = 1 THEN zfill(bin(v(1)), 6)
      ELSE zfill(bin(45 * v(1) + v(2)), 11)
             \o AlphanumericEncoder_encoded_bits(SubSeq(s, 3, Len(s)))

\* the two-range offset formula: one character -> 13 bits
KanjiEncoder_character_bits(c) ==
  LET code == shift_jis(c)
      sub == IF code <= 40956 THEN code - 33088 ELSE code - 49472
  IN  zfill(bin((sub \div 256) * 192 + (sub % 256)), 13)

RECURSIVE KanjiEncoder_encoded_bits(_)
KanjiEncoder_encoded_bits(s) ==
  IF s = <<>> THEN <<>>
  ELSE KanjiEncoder_character_bits(Head(s)) \o KanjiEncoder_encoded_bits(Tail(s))

\* encoders[mode].encode(data, width) for data the mode accepts
encoder_encode(mode, data, character_count_indicator_length) ==
  CASE mode = NumericEncoder ->
         NumericEncoder_mode_indicator
           \o zfill(bin(Len(data)), character_count_indicator_length)
           \o NumericEncoder_encoded_bits(data)
    [] mode = AlphanumericEncoder ->
         AlphanumericEncoder_mode_indicator
           \o zfill(bin(Len(data)), character_count_indicator_length)
           \o AlphanumericEncoder_encoded_bits(data)
    [] mode = ByteEncoder ->
         ByteEncoder_encode(data, character_count_indicator_length)
    [] mode = KanjiEncoder ->
         KanjiEncoder_mode_indicator
           \o zfill(bin(Len(data)), character_count_indicator_length)
           \o KanjiEncoder_encoded_bits(data)

\* ------------------------------------------------------------ version table
ErrorCorrectionLevels == {"M", "H"}

character_count_indicator_lengths(numeric, alphanumeric, byte, kanji) ==
  [mode \in Modes |->
     CASE mode = NumericEncoder -> numeric
       [] mode = AlphanumericEncoder -> alphanumeric
       [] mode = ByteEncoder -> byte
       [] mode = KanjiEncoder -> kanji]

\* two entries of the capacity table (format/rmqr_versions.py)
rMQRVersions ==
  [version_name \in {"R7x43", "R7x77"} |->
     IF version_name = "R7x43"
     THEN [character_count_indicator_length |->
             character_count_indicator_lengths(4, 3, 3, 2),
           number_of_data_bits |-> [M |-> 48, H |-> 24]]
     ELSE [character_count_indicator_length |->
             character_count_indicator_lengths(6, 5, 5, 4),
           number_of_data_bits |-> [M |-> 160, H |-> 80]]]

VersionNames == DOMAIN rMQRVersions

\* ------------------------------------------------------------ segments.py
RECURSIVE compute_length_from(_, _, _)
compute_length_from(segments, version_name, i) ==
  IF i > Len(segments) THEN 0
  ELSE encoder_length(
         segments[i].encoder_class, segments[i].data,
         rMQRVersions[version_name].character_count_indicator_length[
           segments[i].encoder_class])
       + compute_length_from(segments, version_name, i + 1)

\* compute_length(segments, version_name)
compute_length(segments, version_name) ==
  compute_length_from(segments, version_name, 1)

\* The tables have MAX_CHARACTER + 1 rows in the program.  compute() reads
\* and writes rows 0..len(data) only, and every text that passes the length
\* guard has at most MaxRow characters here, so the rows above MaxRow keep
\* their initial content for ever and are left out of the state.
MaxRow == IF MaxLen > FreshMaxLen THEN MaxLen ELSE FreshMaxLen
Rows == 0..MaxRow

\* SegmentOptimizer.__init__
new_dp == [length \in Rows |-> [mode \in Modes |-> [n \in Phases |-> INF]]]
new_parents ==
  [length \in Rows |-> [mode \in Modes |-> [n \in Phases |-> <<-1, -1, -1>>]]]

\* as below, but a Byte character costs 8 bits whatever its UTF-8 length
compute_new_state_one_byte_per_character(character, new_mode, unfilled_length) ==
  CASE encoders[new_mode + 1] = NumericEncoder ->
         [cost |-> IF unfilled_length = 0 THEN 4 ELSE 3,
          new_length |-> (unfilled_length + 1) % 3]
    [] encoders[new_mode + 1] = AlphanumericEncoder ->
         [cost |-> IF unfilled_length = 0 THEN 6 ELSE 5,
          new_length |-> (unfilled_length + 1) % 2]
    [] encoders[new_mode + 1] = ByteEncoder ->
         [cost |-> 8 * Len(<<character>>), new_length |-> 0]
    [] encoders[new_mode + 1] = KanjiEncoder ->
         [cost |-> 13, new_length |-> 0]

compute_new_state_without_mode_changing(character, new_mode, unfilled_length) ==
  CASE encoders[new_mode + 1] = NumericEncoder ->
         [cost |-> IF unfilled_length = 0 THEN 4 ELSE 3,
          new_length |-> (unfilled_length + 1) % 3]
    [] encoders[new_mode + 1] = AlphanumericEncoder ->
         [cost |-> IF unfilled_length = 0 THEN 6 ELSE 5,
          new_length |-> (unfilled_length + 1) % 2]
    [] encoders[new_mode + 1] = ByteEncoder ->
         [cost |-> 8 * Len(utf8(<<character>>)), new_length |-> 0]
    [] encoders[new_mode + 1] = KanjiEncoder ->
         [cost |-> 13, new_length |-> 0]

compute_new_state_with_mode_changing(qr_ver, character, new_mode, unfilled_length) ==
  LET encoder_class == encoders[new_mode + 1]
      character_count_indicator_length ==
        qr_ver.character_count_indicator_length[encoder_class]
  IN  [cost |-> encoder_length(encoder_class, <<character>>,
                               character_count_indicator_length),
       new_length |->
         IF encoder_class \in {NumericEncoder, AlphanumericEncoder} THEN 1 ELSE 0]

\* as below, but an equally cheap candidate replaces the cell too
is_not_dearer(candidate, recorded) == candidate <= recorded

\* line 137: the test that lets a candidate replace a cell
is_cheaper(candidate, recorded) == candidate < recorded

\* lines 125-139 for one (n, mode, unfilled_length, new_mode); t = [dp, parents]
relax(t, qr_ver, text, n, mode, unfilled_length, new_mode) ==
  IF ~is_valid_characters(encoders[new_mode + 1], <<text[n + 1]>>) THEN t
  ELSE
    LET new_state ==
          IF new_mode = mode
          THEN compute_new_state_without_mode_changing(
                 text[n + 1], new_mode, unfilled_length)
          ELSE compute_new_state_with_mode_changing(
                 qr_ver, text[n + 1], new_mode, unfilled_length)
        cost == new_state.cost
        new_length == new_state.new_length
    IN  IF is_cheaper(t.dp[n][mode][unfilled_length] + cost,
                      t.dp[n + 1][new_mode][new_length])
        THEN [dp |-> [t.dp EXCEPT ![n + 1][new_mode][new_length] =
                        t.dp[n][mode][unfilled_length] + cost],
              parents |-> [t.parents EXCEPT ![n + 1][new_mode][new_length] =
                             <<n, mode, unfilled_length>>]]
        ELSE t

RECURSIVE relax_from(_, _, _, _, _)
\* the loops over mode, unfilled_length and new_mode (lines 119-124), in
\* program order: k = 12 * mode + 4 * unfilled_length + new_mode
relax_from(t, qr_ver, text, n, k) ==
  IF k = 48 THEN t
  ELSE IF t.dp[n][k \div 12][(k \div 4) % 3] = INF
  THEN relax_from(t, qr_ver, text, n, k + 1)
  ELSE relax_from(
         relax(t, qr_ver, text, n, k \div 12, (k \div 4) % 3, k % 4),
         qr_ver, text, n, k + 1)

RECURSIVE compute_costs_from(_, _, _, _)
\* the loop over n (line 118)
compute_costs_from(t, qr_ver, text, n) ==
  IF n >= Len(text) THEN t
  ELSE compute_costs_from(relax_from(t, qr_ver, text, n, 0), qr_ver, text, n + 1)

\* lines 112-116: the root cells
base_case(t, qr_ver) ==
  [dp |-> [t.dp EXCEPT ![0] =
             [mode \in Modes |->
                [t.dp[0][mode] EXCEPT ![0] =
                   encoder_length(
                     encoders[mode + 1], <<>>,
                     qr_ver.character_count_indicator_length[encoders[mode + 1]])]]],
   parents |-> [t.parents EXCEPT ![0] =
                  [mode \in Modes |-> [t.parents[0][mode] EXCEPT ![0] = <<0, 0, 0>>]]]]

\* SegmentOptimizer._compute_costs
compute_costs(t, qr_ver, text) ==
  compute_costs_from(base_case(t, qr_ver), qr_ver, text, 0)

\* line 208: the test that lets a terminal cell replace the best so far
is_better(cost, best_cost) == cost < best_cost

RECURSIVE find_best_from(_, _, _, _)
\* the loops of _find_best in program order: k = 3 * mode + unfilled_length
find_best_from(table, text, k, best_so_far) ==
  IF k = 12 THEN best_so_far
  ELSE LET mode == k \div 3
           unfilled_length == k % 3
       IN  find_best_from(
             table, text, k + 1,
             IF is_better(table[Len(text)][mode][unfilled_length], best_so_far.cost)
             THEN [cost |-> table[Len(text)][mode][unfilled_length],
                   index |-> <<Len(text), mode, unfilled_length>>]
             ELSE best_so_far)

\* SegmentOptimizer._find_best
find_best(table, text) ==
  find_best_from(table, text, 0, [cost |-> INF, index |-> <<-1, -1, -1>>])

RECURSIVE reversed(_)
reversed(s) == IF s = <<>> THEN <<>> ELSE reversed(Tail(s)) \o <<Head(s)>>

RECURSIVE path_to_root(_, _)
\* the while loop of _reconstruct_path: the cells from best_index back to row 0
path_to_root(ptable, index) ==
  IF index[1] = 0 THEN <<>>
  ELSE <<index>> \o path_to_root(ptable, ptable[index[1]][index[2]][index[3]])

\* as below, without path.reverse()
reconstruct_path_unreversed(ptable, best_index) == path_to_root(ptable, best_index)

\* SegmentOptimizer._reconstruct_path
reconstruct_path(ptable, best_index) == reversed(path_to_root(ptable, best_index))

RECURSIVE compute_segments_from(_, _, _, _, _, _)
\* the loop of _compute_segments over path[i..]
compute_segments_from(path, text, i, segments, current_segment_data, current_mode) ==
  IF i > Len(path)
  THEN IF current_mode # -1
       THEN Append(segments, [data |-> current_segment_data,
                              encoder_class |-> encoders[current_mode + 1]])
       ELSE segments
  ELSE LET p == path[i]
       IN  IF current_mode = -1
           THEN compute_segments_from(
                  path, text, i + 1, segments,
                  Append(current_segment_data, text[p[1]]), p[2])
           ELSE IF current_mode = p[2]
           THEN compute_segments_from(
                  path, text, i + 1, segments,
                  Append(current_segment_data, text[p[1]]), current_mode)
           ELSE compute_segments_from(
                  path, text, i + 1,
                  Append(segments, [data |-> current_segment_data,
                                    encoder_class |-> encoders[current_mode + 1]]),
                  <<text[p[1]]>>, p[2])

\* SegmentOptimizer._compute_segments
compute_segments(path, text) == compute_segments_from(path, text, 1, <<>>, <<>>, -1)

NoBest == [cost |-> -1, index |-> <<-1, -1, -1>>]
NoVersion == "unset"

\* line 84: the character cap
exceeds_max_character(text) == Len(text) > MAX_CHARACTER

\* line 90: the capacity test
exceeds_capacity(cost, number_of_data_bits) == cost > number_of_data_bits

\* lines 90-95 of compute, once `best` is known
compute_result(t, found, text, version_name, ecc_level) ==
  IF exceeds_capacity(found.cost,
                      rMQRVersions[version_name].number_of_data_bits[ecc_level])
  THEN [dp |-> t.dp, parents |-> t.parents, qr_version |-> version_name,
        best |-> found, raised |-> "DataTooLongError", segments |-> <<>>]
  ELSE [dp |-> t.dp, parents |-> t.parents, qr_version |-> version_name,
        best |-> found, raised |-> "",
        segments |-> compute_segments(
                       reconstruct_path(t.parents, found.index), text)]

\* lines 89-95 of compute, once the tables are filled
compute_with_costs(t, text, version_name, ecc_level) ==
  compute_result(t, find_best(t.dp, text), text, version_name, ecc_level)

\* as below, but self.qr_version is assigned before the character cap is tested
SegmentOptimizer_compute_version_first(self, text, version_name, ecc_level) ==
  IF exceeds_max_character(text)
  THEN [dp |-> self.dp, parents |-> self.parents, qr_version |-> version_name,
        best |-> NoBest, raised |-> "DataTooLongError", segments |-> <<>>]
  ELSE compute_with_costs(
         compute_costs([dp |-> self.dp, parents |-> self.parents],
                       rMQRVersions[version_name], text),
         text, version_name, ecc_level)

\* SegmentOptimizer.compute on an optimizer whose fields are self: the fields
\* after the call, the local `best`, and what the call returns or raises
SegmentOptimizer_compute(self, text, version_name, ecc_level) ==
  IF exceeds_max_character(text)
  THEN [dp |-> self.dp, parents |-> self.parents, qr_version |-> self.qr_version,
        best |-> NoBest, raised |-> "DataTooLongError", segments |-> <<>>]
  ELSE compute_with_costs(
         compute_costs([dp |-> self.dp, parents |-> self.parents],
                       rMQRVersions[version_name], text),
         text, version_name, ecc_level)

\* ------------------------------------------------------------------ state
VARIABLES
  dp,          \* self.dp
  parents,     \* self.parents
  qr_version,  \* self.qr_version: the name of the table entry it refers to
  calls,       \* compute() calls made on this optimizer so far
  data,        \* the arguments of the last compute() call
  version,
  ecc,
  best,        \* the local `best` of the last call, NoBest when it had none
  raised,      \* "DataTooLongError" when the last call raised, "" otherwise
  result,      \* the segment list the last call returned
  encoding     \* an encoder call: its arguments and, once made, its outcome

vars ==
  <<dp, parents, qr_version, calls, data, version, ecc, best, raised, result,
    encoding>>

NoEncoding ==
  [encoder_class |-> -1, data |-> <<>>, character_count_indicator_length |-> 0,
   done |-> FALSE, raised |-> "", bits |-> <<>>, length |-> -1]

Texts(n) == UNION {[1..k -> Alphabet] : k \in 0..n}
TooLong == [i \in 1..(MAX_CHARACTER + 1) |-> "1"]

Init ==
  /\ dp = new_dp
  /\ parents = new_parents
  /\ qr_version = NoVersion
  /\ calls = 0
  /\ data = <<>>
  /\ version = NoVersion
  /\ ecc = "M"
  /\ best = NoBest
  /\ raised = ""
  /\ result = <<>>
  /\ encoding = NoEncoding

\* optimizer = SegmentOptimizer()
New ==
  /\ calls > 0
  /\ dp' = new_dp
  /\ parents' = new_parents
  /\ qr_version' = NoVersion
  /\ calls' = 0
  /\ data' = <<>>
  /\ version' = NoVersion
  /\ ecc' = "M"
  /\ best' = NoBest
  /\ raised' = ""
  /\ result' = <<>>
  /\ UNCHANGED encoding

\* the optimizer and the record of the call after a compute() with outcome out
Returned(out, text, version_name, ecc_level) ==
  /\ dp' = out.dp
  /\ parents' = out.parents
  /\ qr_version' = out.qr_version
  /\ calls' = calls + 1
  /\ data' = text
  /\ version' = version_name
  /\ ecc' = ecc_level
  /\ best' = out.best
  /\ raised' = out.raised
  /\ result' = out.segments
  /\ UNCHANGED encoding

Called(text, version_name, ecc_level) ==
  Returned(
    SegmentOptimizer_compute(
      [dp |-> dp, parents |-> parents, qr_version |-> qr_version],
      text, version_name, ecc_level),
    text, version_name, ecc_level)

\* optimizer.compute(text, version_name, ecc_level)
Compute ==
  /\ calls < MaxCalls
  /\ \E text \in Texts(MaxLen) \cup {TooLong}, version_name \in VersionNames,
        ecc_level \in ErrorCorrectionLevels :
       Called(text, version_name, ecc_level)

Next == Compute \/ New

Spec == Init /\ [][Next]_vars

\* ------------------------------------------- compute() on a fresh optimizer
InitFresh ==
  /\ dp = new_dp
  /\ parents = new_parents
  /\ qr_version = NoVersion
  /\ calls = 0
  /\ data \in Texts(FreshMaxLen) \cup {TooLong}
  /\ version \in VersionNames
  /\ ecc \in ErrorCorrectionLevels
  /\ best = NoBest
  /\ raised = ""
  /\ result = <<>>
  /\ encoding = NoEncoding

\* SegmentOptimizer().compute(data, version, ecc)
FreshCompute ==
  /\ calls = 0
  /\ Called(data, version, ecc)

NextFresh == FreshCompute

SpecFresh == InitFresh /\ [][NextFresh]_vars

\* ------------------------------ compute() on an optimizer used once before
\* SegmentOptimizer().compute(text, version_name, ecc_level)
fresh_outcome(text, version_name, ecc_level) ==
  SegmentOptimizer_compute(
    [dp |-> new_dp, parents |-> new_parents, qr_version |-> NoVersion],
    text, version_name, ecc_level)

\* the optimizer and the record of its first call, whose outcome was out
AfterFirstCall(out, text, version_name, ecc_level) ==
  /\ dp = out.dp
  /\ parents = out.parents
  /\ qr_version = out.qr_version
  /\ calls = 1
  /\ data = text
  /\ version = version_name
  /\ ecc = ecc_level
  /\ best = out.best
  /\ raised = out.raised
  /\ result = out.segments
  /\ encoding = NoEncoding

\* every state an optimizer can be in after its first compute() call
InitUsed ==
  \E text \in Texts(MaxLen) \cup {TooLong}, version_name \in VersionNames,
     ecc_level \in ErrorCorrectionLevels :
    AfterFirstCall(fresh_outcome(text, version_name, ecc_level),
                   text, version_name, ecc_level)

\* the second optimizer.compute(text, version_name, ecc_level)
SecondCompute ==
  /\ calls = 1
  /\ \E text \in Texts(MaxLen) \cup {TooLong}, version_name \in VersionNames,
        ecc_level \in ErrorCorrectionLevels :
       Called(text, version_name, ecc_level)

NextUsed == SecondCompute

SpecUsed == InitUsed /\ [][NextUsed]_vars

\* ------------------------------------------------------- the mode encoders
InitEncode ==
  /\ dp = new_dp
  /\ parents = new_parents
  /\ qr_version = NoVersion
  /\ calls = 0
  /\ data = <<>>
  /\ version = NoVersion
  /\ ecc = "M"
  /\ best = NoBest
  /\ raised = ""
  /\ result = <<>>
  /\ \E encoder_class \in Modes,
        text \in UNION {[1..k -> Characters] : k \in 0..EncMaxLen},
        width \in 1..EncMaxWidth :
       encoding = [NoEncoding EXCEPT
                     !.encoder_class = encoder_class,
                     !.data = text,
                     !.character_count_indicator_length = width]

\* encoder_class.encode(data, width) and encoder_class.length(data, width)
Encode ==
  /\ ~encoding.done
  /\ is_valid_characters(encoding.encoder_class, encoding.data)
  /\ encoding' =
       [encoding EXCEPT
          !.done = TRUE,
          !.bits = encoder_encode(encoding.encoder_class, encoding.data,
                                  encoding.character_count_indicator_length),
          !.length = encoder_length(encoding.encoder_class, encoding.data,
                                    encoding.character_count_indicator_length)]
  /\ UNCHANGED <<dp, parents, qr_version, calls, data, version, ecc, best,
                 raised, result>>

\* encoder_class.encode(data, width) on a character the mode rejects
EncodeIllegal ==
  /\ ~encoding.done
  /\ ~is_valid_characters(encoding.encoder_class, encoding.data)
  /\ encoding' = [encoding EXCEPT !.done = TRUE,
                                  !.raised = "IllegalCharacterError"]
  /\ UNCHANGED <<dp, parents, qr_version, calls, data, version, ecc, best,
                 raised, result>>

NextEncode == Encode \/ EncodeIllegal

SpecEncode == InitEncode /\ [][NextEncode]_vars

\* ---------------------------------------------------------------- properties
\* the last compute() call got past the character cap and returned segments
ReturnedSegments == calls >= 1 /\ raised = ""

RECURSIVE concatenated_from(_, _)
\* the data strings of segments[i..], joined in list order
concatenated_from(segments, i) ==
  IF i > Len(segments) THEN <<>>
  ELSE segments[i].data \o concatenated_from(segments, i + 1)

LeastOf(S) == CHOOSE x \in S : \A y \in S : x <= y

RECURSIVE least_partition_length(_, _, _)
\* the least total encoded length over all ways of cutting text[i..] into
\* contiguous segments, each tagged with a mode that accepts all of it
least_partition_length(text, version_name, i) ==
  IF i > Len(text) THEN 0
  ELSE LeastOf(
         {encoder_length(
            cut[1], SubSeq(text, i, cut[2]),
            rMQRVersions[version_name].character_count_indicator_length[cut[1]])
          + least_partition_length(text, version_name, cut[2] + 1) :
          cut \in {c \in Modes \X (i..Len(text)) :
                     is_valid_characters(c[1], SubSeq(text, i, c[2]))}})

\* C1: on a fresh optimizer, the segments compute() returns have the least
\* total encoded length among all valid mode-tagged partitions of the input.
C1_MinimumOverAllPartitions ==
  (calls = 1 /\ raised = "") =>
    compute_length(result, version) = least_partition_length(data, version, 1)

\* a fresh call whose optimum switches mode inside the input
C1_Witness ==
  /\ calls = 1
  /\ raised = ""
  /\ Len(result) >= 2
  /\ compute_length(result, version) = least_partition_length(data, version, 1)

same_outcome(out) == raised = out.raised /\ result = out.segments

\* C2: every compute() call on a reused optimizer has the outcome (segment
\* list or error) the same call has on a freshly constructed optimizer.
C2_ReuseEqualsFresh ==
  calls >= 1 => same_outcome(fresh_outcome(data, version, ecc))

\* C3: whenever compute() returns, on a new optimizer or on a used one, the
\* data strings of the returned segments, joined in list order, are exactly
\* the input.
C3_RoundTrip == ReturnedSegments => concatenated_from(result, 1) = data

\* a second call on the same optimizer that returned several segments
C3_Witness ==
  /\ calls = 2
  /\ raised = ""
  /\ Len(result) >= 2
  /\ concatenated_from(result, 1) = data

\* C4: for an input within the character cap, compute() raises
\* DataTooLongError exactly when the least total encoded length of the input
\* exceeds the capacity of the version at the ECC level; it returns no
\* segments when it raises; and the same call at an ECC level of the same
\* version whose capacity is larger and at least that length does not raise.
C4_RaisesIffOptimumExceedsCapacity ==
  [][(calls' = calls + 1 /\ Len(data') <= MAX_CHARACTER) =>
       LET optimum == least_partition_length(data', version', 1)
           number_of_data_bits == rMQRVersions[version'].number_of_data_bits
       IN  /\ (raised' = "DataTooLongError") <=> (optimum > number_of_data_bits[ecc'])
           /\ (raised' = "DataTooLongError" => result' = <<>>)
           /\ \A larger \in ErrorCorrectionLevels :
                (/\ number_of_data_bits[larger] > number_of_data_bits[ecc']
                 /\ number_of_data_bits[larger] >= optimum) =>
                  SegmentOptimizer_compute(
                    [dp |-> dp, parents |-> parents, qr_version |-> qr_version],
                    data', version', larger).raised = ""]_vars

\* C5: a compute() call with more than MAX_CHARACTER characters raises
\* DataTooLongError for every version and ECC level and leaves dp, parents
\* and qr_version as they were before the call.
C5_CharacterCap ==
  [][(calls' = calls + 1 /\ Len(data') > MAX_CHARACTER) =>
       /\ raised' = "DataTooLongError"
       /\ result' = <<>>
       /\ dp' = dp
       /\ parents' = parents
       /\ qr_version' = qr_version]_vars

\* an over-long call on an optimizer whose tables an earlier call had filled
C5_Witness ==
  /\ calls = 2
  /\ Len(data) > MAX_CHARACTER
  /\ raised = "DataTooLongError"
  /\ dp # new_dp
  /\ qr_version # NoVersion

\* C6: for all data and every count-indicator width, also one too narrow for
\* the character count, ByteEncoder.length(data, width) is the number of bits
\* of ByteEncoder.encode(data, width).
C6_ByteLengthIsEncodedLength ==
  (encoding.done /\ encoding.encoder_class = ByteEncoder) =>
    encoding.length = Len(encoding.bits)

\* C7: the total encoded length of the returned segments is the minimum cost
\* _find_best reported and compute() compared against the capacity.
C7_SegmentsLengthIsBestCost ==
  ReturnedSegments => compute_length(result, version) = best.cost

\* C8: a non-empty all-digit input that fits the capacity comes back as one
\* Numeric segment holding the whole input.
C8_AllNumericDominance ==
  (ReturnedSegments /\ data # <<>> /\ is_valid_characters(NumericEncoder, data)) =>
    result = <<[data |-> data, encoder_class |-> NumericEncoder]>>

\* C9: every returned segment's mode accepts every character of its data.
C9_SegmentsAreValid ==
  ReturnedSegments =>
    \A i \in 1..Len(result) :
      is_valid_characters(result[i].encoder_class, result[i].data)

\* cost and new phase of taking character c in new_mode from (mode, phase)
transition(version_name, c, mode, phase, new_mode) ==
  IF new_mode = mode
  THEN compute_new_state_without_mode_changing(c, new_mode, phase)
  ELSE compute_new_state_with_mode_changing(rMQRVersions[version_name], c,
                                            new_mode, phase)

\* the cells of row r - 1 from which a legal transition leads to (r, m, p)
predecessors(r, m, p) ==
  {c \in Modes \X Phases :
     /\ dp[r - 1][c[1]][c[2]] # INF
     /\ is_valid_characters(m, <<data[r]>>)
     /\ transition(version, data[r], c[1], c[2], m).new_length = p}

cost_via(r, c, m) ==
  dp[r - 1][c[1]][c[2]] + transition(version, data[r], c[1], c[2], m).cost

\* position in the evaluation order: mode first, then phase
evaluation_order(c) == 3 * c[1] + c[2]

\* the cheapest element of cells under cost_of, the earliest one on a tie
first_cheapest(cells, cost_of(_)) ==
  CHOOSE c \in cells :
    \A o \in cells :
      \/ cost_of(c) < cost_of(o)
      \/ cost_of(c) = cost_of(o) /\ evaluation_order(c) <= evaluation_order(o)

reached_terminals == {c \in Modes \X Phases : dp[Len(data)][c[1]][c[2]] # INF}

\* C10: after a call on a fresh optimizer every cell of rows 1..len(data)
\* holds the least cost over its predecessors and, as parent, the first of
\* the cheapest predecessors in the order Numeric, Alphanumeric, Byte, Kanji
\* (then phase); `best` is the first of the cheapest terminal cells.
C10_FirstCheapestWins ==
  (calls = 1 /\ Len(data) <= MAX_CHARACTER) =>
    /\ \A r \in 1..Len(data), m \in Modes, p \in Phases :
         LET via(c) == cost_via(r, c, m)
         IN  IF predecessors(r, m, p) = {}
             THEN dp[r][m][p] = INF /\ parents[r][m][p] = <<-1, -1, -1>>
             ELSE LET c == first_cheapest(predecessors(r, m, p), via)
                  IN  /\ dp[r][m][p] = via(c)
                      /\ parents[r][m][p] = <<r - 1, c[1], c[2]>>
    /\ LET terminal_cost(c) == dp[Len(data)][c[1]][c[2]]
           c == first_cheapest(reached_terminals, terminal_cost)
       IN  best = [cost |-> terminal_cost(c), index |-> <<Len(data), c[1], c[2]>>]

\* a fresh call in which a cell on the returned path had two cheapest
\* predecessors
C10_Witness ==
  /\ calls = 1
  /\ raised = ""
  /\ Len(data) >= 1
  /\ \E r \in 1..Len(data), m \in Modes, p \in Phases :
       /\ <<r, m, p>> \in {reconstruct_path(parents, best.index)[i] :
                             i \in 1..Len(data)}
       /\ Cardinality({c \in predecessors(r, m, p) :
                         cost_via(r, c, m) = dp[r][m][p]}) >= 2

====
